---- MODULE Spec2Model ----
(***************************************************************************)
(* The sketch host of mattors' p5 playground (index.tsx): the registry of  *)
(* sketches, the lookup done when a sketch view mounts, and the callbacks  *)
(* (setup, draw, mouseClicked, keyPressed) the view hands to p5.           *)
(*                                                                         *)
(* p5 itself is a library: its frame loop is modelled by its documented    *)
(* contract.  A p5 instance starts looping, runs setup once, then calls    *)
(* the draw callback on every frame while it is looping; noLoop() stops    *)
(* that, loop() resumes it, save() writes the canvas to a file.            *)
(***************************************************************************)
EXTENDS Bags, FiniteSets, Integers, Sequences, TLC

\* Longest call log (reset/draw calls received by the active sketch) explored.
MaxCalls == 5

\* Most image artifacts written in one session.
MaxSaves == 2

\* Most p5 instances left behind by views the user has navigated away from.
MaxLeaked == 1

\* Longest call log of a p5 instance explored when views come and go.
NavMaxCalls == 3

\* ---------------------------------------------------------------------------
\* Registry

\* A field a class does not declare reads as undefined.
Undefined == "undefined"

\* JavaScript truthiness of a loop field ("true", "false" or undefined).
Truthy(v) == v = "true"

\* The class SuperPermutations is not part of the sources at hand: its name
\* field is taken to be the class name spelled out, a name no other sketch
\* carries, and its loop field is left absent.
SuperPermutations_name == "Super Permutations"

\* SKETCHES, from older to most recent: the class, its name field and its
\* loop field.
SKETCHES ==
    << [cls |-> "Print10",             name |-> "10Print",                       loop |-> Undefined],
       [cls |-> "CubicDisarray",       name |-> "Cubic disarray",                loop |-> Undefined],
       [cls |-> "BloodySpiderWeb",     name |-> "Bloody spider web",             loop |-> Undefined],
       [cls |-> "Annulus",             name |-> "Annulus",                       loop |-> "false"],
       [cls |-> "Astroid",             name |-> "Astroid",                       loop |-> "false"],
       [cls |-> "NeonLines",           name |-> "Neon Lines",                    loop |-> "true"],
       [cls |-> "Nucleus",             name |-> "Nucleus",                       loop |-> Undefined],
       [cls |-> "RoughBalls",          name |-> "Rough Balls",                   loop |-> "false"],
       [cls |-> "Blankets",            name |-> "Blankets",                      loop |-> "true"],
       [cls |-> "ChristmasSpiralTree", name |-> "Christmas Spiral Tree",         loop |-> "true"],
       [cls |-> "LightInACave",        name |-> "Light in a Cave",               loop |-> "true"],
       [cls |-> "Cuts",                name |-> "Cuts and Tears",                loop |-> "false"],
       [cls |-> "Walls",               name |-> "Walls",                         loop |-> "false"],
       [cls |-> "SuperPermutations",   name |-> SuperPermutations_name,          loop |-> Undefined],
       [cls |-> "SpaceFillingCurves",  name |-> "Space Filling Curves",          loop |-> "false"],
       [cls |-> "GalaxyMap",           name |-> "Galaxy Map",                    loop |-> "false"],
       [cls |-> "CliffordAttractors",  name |-> "Clifford Attractors",           loop |-> "true"],
       [cls |-> "Isolines",            name |-> "Isolines",                      loop |-> "false"],
       [cls |-> "Roses",               name |-> "Roses",                         loop |-> "true"],
       [cls |-> "CairoTiling",         name |-> "Cairo tiling",                  loop |-> "true"],
       [cls |-> "PenroseTiling",       name |-> "Penrose Tiling",                loop |-> "true"],
       [cls |-> "TruchetTiles",        name |-> "Truchet Tiles",                 loop |-> "false"],
       [cls |-> "TriangularMaze",      name |-> "Triangular Maze (kind of)",     loop |-> "true"],
       [cls |-> "CircularMaze",        name |-> "Circular Maze (kind of)",       loop |-> "false"],
       [cls |-> "Dla",                 name |-> "Diffusion limited aggregation", loop |-> "true"],
       [cls |-> "ParallelBands",       name |-> "Parallel Bands",                loop |-> "false"],
       [cls |-> "GooglyEyes",          name |-> "Googly Eyes",                   loop |-> "true"] >>

\* What Map.get answers for a key the map does not hold.
NotFound == [cls |-> Undefined, name |-> Undefined, loop |-> Undefined]

\* The largest element of a non-empty set of integers.
MaxOf(S) == CHOOSE x \in S : \A y \in S : y <= x

\* A registry keyed by class name instead of by the name field.
sketchesMapByClass ==
    [n \in {SKETCHES[i].cls : i \in DOMAIN SKETCHES} |->
        SKETCHES[MaxOf({i \in DOMAIN SKETCHES : SKETCHES[i].cls = n})]]

\* new Map(SKETCHES.map(s => [s.name, s])): keyed by the name field; of two
\* entries with the same key the later one is kept.
sketchesMap ==
    [n \in {SKETCHES[i].name : i \in DOMAIN SKETCHES} |->
        SKETCHES[MaxOf({i \in DOMAIN SKETCHES : SKETCHES[i].name = n})]]

\* sketchesMap.get(sketchName)
get(sketchName) ==
    IF sketchName \in DOMAIN sketchesMap THEN sketchesMap[sketchName] ELSE NotFound

\* The names in the insertion order of sketchesMap, up to the i-th instance: a
\* Map keeps a key at the place of its first insertion.
RECURSIVE keysUpTo(_)
keysUpTo(i) ==
    IF i = 0 THEN << >>
    ELSE IF \E j \in 1..(i - 1) : SKETCHES[j].name = SKETCHES[i].name
         THEN keysUpTo(i - 1)
         ELSE Append(keysUpTo(i - 1), SKETCHES[i].name)

\* sketchesMap.keys()
keys == keysUpTo(Len(SKETCHES))

\* sketches.reverse()
reverse(s) == [i \in 1..Len(s) |-> s[Len(s) + 1 - i]]

\* The selector of the older index.tsx: the names as the map iterates them.
render_insertionOrder == keys

\* SketchSelector.render: one link per key of sketchesMap, latest first.
SketchSelector_render == reverse(keys)

\* The sketch ids a route can carry: every registered name, a class name that
\* is not a registered name, and a name nothing is registered under.
RouteIds == DOMAIN sketchesMap \cup {"Print10", "does-not-exist"}

\* ---------------------------------------------------------------------------
\* The p5 instance of the mounted view, as a record h:
\*   looping   p5's loop flag
\*   calls     the reset/draw calls the sketch has received since the mount
\*   saved     the files written by save()
\*   thrown    the running handler was ended by an exception
\*   stills    for each file written, whether the frame loop was stopped then

NewP5 == [looping |-> TRUE, calls |-> << >>, saved |-> << >>, thrown |-> FALSE,
          stills |-> << >>]

\* sketch.reset(p)
sketch_reset(h) == [h EXCEPT !.calls = Append(@, "reset")]

\* sketch.draw(p)
sketch_draw(h) == [h EXCEPT !.calls = Append(@, "draw")]

\* p.noLoop()
noLoop(h) == [h EXCEPT !.looping = FALSE]

\* p.loop()
loop(h) == [h EXCEPT !.looping = TRUE]

\* p.save(`${sketch.name}.png`); ok = FALSE is a capture that throws.
save(h, base, ok) ==
    IF ok THEN [h EXCEPT !.saved = Append(@, <<base, ".png">>),
                         !.stills = Append(@, ~h.looping)]
          ELSE [h EXCEPT !.thrown = TRUE]

\* p.setup
p_setup(h, sketch) == sketch_reset(h)

\* A draw callback that never stops the loop.
p_draw_keepsLooping(h, sketch) == sketch_draw(h)

\* A draw callback that always stops the loop (the single-shot host).
p_draw_alwaysNoLoop(h, sketch) == noLoop(sketch_draw(h))

\* p.draw
p_draw(h, sketch) ==
    LET h1 == sketch_draw(h)
    IN  IF ~Truthy(sketch.loop) THEN noLoop(h1) ELSE h1

\* A scheduler that runs the draw callback whether looping or not.
frame_whilePaused(h, sketch) == p_draw(h, sketch)

\* One tick of p5's frame scheduler: the draw callback runs only while looping.
frame(h, sketch) == IF h.looping THEN p_draw(h, sketch) ELSE h

\* A click handler that does not look at the button.
mouseClicked_anyButton(h, sketch, mouseButton) == p_draw(sketch_reset(h), sketch)

\* A click handler that resets without redrawing.
mouseClicked_noRedraw(h, sketch, mouseButton) ==
    IF mouseButton # "left" THEN h ELSE sketch_reset(h)

\* p.mouseClicked
mouseClicked(h, sketch, mouseButton) ==
    IF mouseButton # "left" THEN h
    ELSE p_draw(sketch_reset(h), sketch)

\* An export that resumes the loop whatever the sketch's loop field.
export_resumesAlways(h, sketch, saveOk) ==
    LET h1 == IF Truthy(sketch.loop) THEN noLoop(h) ELSE h
        h2 == save(h1, sketch.name, saveOk)
    IN  IF h2.thrown THEN h2 ELSE loop(h2)

\* The "d" branch of p.keyPressed.
export(h, sketch, saveOk) ==
    LET h1 == IF Truthy(sketch.loop) THEN noLoop(h) ELSE h
        h2 == save(h1, sketch.name, saveOk)
    IN  IF h2.thrown THEN h2
        ELSE IF Truthy(sketch.loop) THEN loop(h2) ELSE h2

\* A key handler without the stop key.
keyPressed_stopIgnored(h, sketch, key, saveOk) ==
    IF key = " " THEN p_draw(sketch_reset(h), sketch)
    ELSE IF key = "p" /\ Truthy(sketch.loop) THEN loop(h)
    ELSE IF key = "d" THEN export(h, sketch, saveOk)
    ELSE h

\* A key handler whose resume key does not look at the loop field.
keyPressed_resumeAny(h, sketch, key, saveOk) ==
    IF key = " " THEN p_draw(sketch_reset(h), sketch)
    ELSE IF key = "s" THEN noLoop(h)
    ELSE IF key = "p" THEN loop(h)
    ELSE IF key = "d" THEN export(h, sketch, saveOk)
    ELSE h

\* p.keyPressed
keyPressed(h, sketch, key, saveOk) ==
    IF key = " " THEN p_draw(sketch_reset(h), sketch)
    ELSE IF key = "s" THEN noLoop(h)
    ELSE IF key = "p" /\ Truthy(sketch.loop) THEN loop(h)
    ELSE IF key = "d" THEN export(h, sketch, saveOk)
    ELSE h

\* ---------------------------------------------------------------------------
\* State

VARIABLES
    view,     \* "selector", "sketch" (a host is running) or "error"
    route,    \* the sketchId of the current route ("/" on the selector)
    sketch,   \* the registry entry runSketch looked up
    p,        \* the p5 instance of the view
    ev,       \* the last event handled
    touched,  \* an input event (mouse or key) has arrived since the mount
    menu,     \* the links the selector shows (empty while it is not rendered)
    leaked,   \* the p5 instances of the views that were left, with their sketch
    sk        \* the private state of a sketch instance studied on its own

vars == <<view, route, sketch, p, ev, touched, menu, leaked, sk>>

\* No sketch instance is studied on its own.
Idle == [op |-> "idle"]

Buttons == {"left", "right", "center"}
Keys == {" ", "s", "p", "d", "x"}

Event(type, arg) == [type |-> type, arg |-> arg]

\* The application as render() leaves it: the selector at route "/".
HostInit ==
    /\ view = "selector"
    /\ route = "/"
    /\ sketch = NotFound
    /\ p = NewP5
    /\ ev = Event("none", "")
    /\ touched = FALSE
    /\ menu = SketchSelector_render
    /\ leaked = << >>

hostVars == <<view, route, sketch, p, ev, touched, menu, leaked>>

Init ==
    /\ HostInit
    /\ sk = Idle

\* Following a link to /sketch/:sketchId mounts the Sketch component, whose
\* componentDidMount runs runSketch: the lookup, the throw for an unknown
\* name, and otherwise a new p5 instance, which runs setup.
RunSketch(sketchId) ==
    /\ view = "selector"
    /\ route' = sketchId
    /\ sketch' = get(sketchId)
    /\ ev' = Event("mount", sketchId)
    /\ touched' = FALSE
    /\ IF get(sketchId) = NotFound
          THEN /\ view' = "error"
               /\ p' = [NewP5 EXCEPT !.thrown = TRUE]
          ELSE /\ view' = "sketch"
               /\ p' = p_setup(NewP5, get(sketchId))
    /\ menu' = << >>
    /\ UNCHANGED <<leaked, sk>>

\* The frame scheduler ticks.
Tick ==
    /\ view = "sketch"
    /\ Len(frame(p, sketch).calls) <= MaxCalls
    /\ p' = [frame(p, sketch) EXCEPT !.thrown = FALSE]
    /\ ev' = Event("tick", "")
    /\ UNCHANGED <<view, route, sketch, touched, menu, leaked, sk>>

\* A mouse click with the given button.
MouseClicked(mouseButton) ==
    /\ view = "sketch"
    /\ Len(mouseClicked(p, sketch, mouseButton).calls) <= MaxCalls
    /\ p' = mouseClicked([p EXCEPT !.thrown = FALSE], sketch, mouseButton)
    /\ ev' = Event("click", mouseButton)
    /\ touched' = TRUE
    /\ UNCHANGED <<view, route, sketch, menu, leaked, sk>>

\* A key press; saveOk tells whether a capture it starts succeeds.
KeyPressed(key, saveOk) ==
    /\ view = "sketch"
    /\ Len(keyPressed(p, sketch, key, saveOk).calls) <= MaxCalls
    /\ Len(keyPressed(p, sketch, key, saveOk).saved) <= MaxSaves
    /\ p' = keyPressed([p EXCEPT !.thrown = FALSE], sketch, key, saveOk)
    /\ ev' = Event("key", key)
    /\ touched' = TRUE
    /\ UNCHANGED <<view, route, sketch, menu, leaked, sk>>

Next ==
    \/ \E sketchId \in RouteIds : RunSketch(sketchId)
    \/ Tick
    \/ \E mouseButton \in Buttons : MouseClicked(mouseButton)
    \/ \E key \in Keys, saveOk \in BOOLEAN : KeyPressed(key, saveOk)

Spec == Init /\ [][Next]_vars

\* ---------------------------------------------------------------------------
\* Properties

\* The sketch has been drawn at least once since the mount.
Drawn == \E i \in DOMAIN p.calls : p.calls[i] = "draw"

\* An explicit reset trigger: a click of the primary button or the space key.
IsResetTrigger(e) ==
    \/ e.type = "click" /\ e.arg = "left"
    \/ e.type = "key" /\ e.arg = " "

IsKey(e, key) == e.type = "key" /\ e.arg = key

\* C1: as long as no input has arrived since the mount, the sketch has
\* received one reset (from setup) followed only by draws; once the first
\* frame has drawn, the host loops exactly if the sketch's loop field is
\* true, and a sketch whose loop field is false or absent has been drawn
\* once and no more.
C1_MountResetsThenDraws ==
    (view = "sketch" /\ ~touched) =>
        /\ Len(p.calls) >= 1
        /\ p.calls[1] = "reset"
        /\ \A i \in 2..Len(p.calls) : p.calls[i] = "draw"
        /\ (Len(p.calls) = 1 => p.looping)
        /\ (Len(p.calls) >= 2 => (p.looping <=> Truthy(sketch.loop)))
        /\ (~Truthy(sketch.loop) => Len(p.calls) <= 2)

\* A sketch without a loop field was mounted, drawn once and then left
\* paused while the scheduler ticked on.
C1_Witness ==
    /\ view = "sketch" /\ ~touched
    /\ sketch.loop = Undefined
    /\ p.calls = <<"reset", "draw">>
    /\ ~p.looping
    /\ ev.type = "tick"

C3_ResetTriggerResetsAndDraws ==
    [][IsResetTrigger(ev') => p'.calls = p.calls \o <<"reset", "draw">>]_vars

\* The space key was pressed on a looping sketch that the stop key had
\* paused after its first frames.
C3_Witness ==
    /\ IsKey(ev, " ")
    /\ Truthy(sketch.loop)
    /\ ~p.looping
    /\ Len(p.calls) >= 4
    /\ SubSeq(p.calls, Len(p.calls) - 1, Len(p.calls)) = <<"reset", "draw">>

\* C4: a reset trigger leaves the loop flag as it was for a looping sketch
\* (running or stopped) and for a paused sketch that does not loop.
C4_ResetTriggerKeepsState ==
    [][(IsResetTrigger(ev') /\ (Truthy(sketch.loop) \/ ~p.looping))
          => p'.looping = p.looping]_vars

\* A running looping sketch was clicked and is still running.
C4_Witness ==
    /\ ev = Event("click", "left")
    /\ Truthy(sketch.loop)
    /\ p.looping
    /\ Len(p.calls) >= 4

\* C5: on a host that has drawn its first frame, a capture that succeeds
\* leaves the loop flag as it was before the export key.
C5_ExportKeepsState ==
    [][(IsKey(ev', "d") /\ Drawn /\ ~p'.thrown) => p'.looping = p.looping]_vars

\* C6: on a host that has drawn its first frame, a capture that throws
\* leaves the loop flag as it was before the export key.
C6_FailedExportRestoresState ==
    [][(IsKey(ev', "d") /\ Drawn /\ p'.thrown) => p'.looping = p.looping]_vars

\* C7: the stop key leaves the host not looping, makes no call on the sketch
\* and writes no file; on a host that is not looping it changes nothing; and
\* the tick that follows it draws nothing.
C7_StopKeyPauses ==
    [][/\ IsKey(ev', "s") =>
            /\ ~p'.looping
            /\ p'.calls = p.calls
            /\ p'.saved = p.saved
            /\ (~p.looping => p' = [p EXCEPT !.thrown = FALSE])
       /\ (IsKey(ev, "s") /\ ev'.type = "tick") => p'.calls = p.calls]_vars

\* The stop key was pressed on a looping sketch that had been drawn.
C7_Witness ==
    /\ IsKey(ev, "s")
    /\ Truthy(sketch.loop)
    /\ ~p.looping
    /\ Len(p.calls) >= 3

\* C8: the resume key makes no call on the sketch; it sets the loop flag if
\* the sketch's loop field is true and changes nothing otherwise; and a
\* sketch whose loop field is false or absent is never looping once it has
\* been drawn.
C8_ResumeOnlyIfLooping ==
    [][/\ IsKey(ev', "p") =>
            /\ p'.calls = p.calls
            /\ p'.saved = p.saved
            /\ IF Truthy(sketch.loop)
                  THEN p'.looping
                  ELSE p' = [p EXCEPT !.thrown = FALSE]
       /\ (~Truthy(sketch'.loop) /\ Drawn') => ~p'.looping]_vars

\* The resume key was pressed on a drawn sketch that does not loop.
C8_Witness ==
    /\ IsKey(ev, "p")
    /\ view = "sketch"
    /\ ~Truthy(sketch.loop)
    /\ Drawn
    /\ ~p.looping

\* C9: in the call log of a sketch whose loop field is false or absent no
\* draw is directly followed by another draw.
C9_NoRedrawWithoutReset ==
    (view = "sketch" /\ ~Truthy(sketch.loop)) =>
        \A i \in 1..(Len(p.calls) - 1) :
            ~(p.calls[i] = "draw" /\ p.calls[i + 1] = "draw")

\* A sketch that does not loop was drawn twice and the scheduler ticked
\* after the second draw.
C9_Witness ==
    /\ view = "sketch"
    /\ sketch.loop = "false"
    /\ Len(SelectSeq(p.calls, LAMBDA c : c = "draw")) >= 2
    /\ ev.type = "tick"

\* C10, as stated: the lookup of "Print10" answers the Print10 instance and
\* the lookup of an unregistered name answers not-found.
C10_Original ==
    (view # "selector") =>
        /\ (route = "Print10" => sketch.cls = "Print10")
        /\ (route = "does-not-exist" => sketch = NotFound)

\* C10, amended: the Print10 instance is registered under its name field,
\* "10Print", and the lookup of that name answers it; the lookup of a name
\* no instance carries ("Print10" and "does-not-exist" among them) answers
\* not-found.
C10_LookupByName ==
    (view # "selector") =>
        /\ (route = "10Print" => sketch = SKETCHES[1] /\ sketch.cls = "Print10")
        /\ (route \in {"Print10", "does-not-exist"} => sketch = NotFound)
        /\ (sketch # NotFound => sketch.name = route)

\* The route named "10Print" and the lookup answered the Print10 instance.
C10_Witness ==
    /\ view = "sketch"
    /\ route = "10Print"
    /\ sketch.cls = "Print10"

\* ---------------------------------------------------------------------------
\* Views that come and go
\*
\* The Sketch component has componentDidMount only.  It keeps no reference to
\* the p5 instance runSketch creates and defines neither componentWillUnmount
\* nor componentDidUpdate: leaving the view removes the component but never the
\* p5 instance, which keeps its frame loop and its window-level mouse and key
\* listeners, and a route change from one sketch id to another re-renders the
\* mounted component without running runSketch again.  An exception thrown
\* out of componentDidMount is caught nowhere (there is no error boundary), so
\* React unmounts the whole tree, router and selector included.

\* The sketch ids navigated to: a looping sketch, a sketch with no loop field
\* and a name nothing is registered under.
NavIds == {"Neon Lines", "10Print", "does-not-exist"}

NavButtons == {"left", "right"}
NavKeys == {" ", "s", "p", "x"}

\* <Link to="/">Matto</Link>: back to the selector.  The component unmounts;
\* its p5 instance stays behind.
Leave ==
    /\ view = "sketch"
    /\ Len(leaked) < MaxLeaked
    /\ view' = "selector"
    /\ route' = "/"
    /\ menu' = SketchSelector_render
    /\ leaked' = Append(leaked, [sketch |-> sketch, p |-> p])
    /\ sketch' = NotFound
    /\ p' = NewP5
    /\ ev' = Event("leave", "")
    /\ touched' = FALSE
    /\ UNCHANGED sk

\* The route changes from one sketch id to another (the hash is edited): the
\* mounted Sketch component gets a new match prop and renders the new id in
\* its breadcrumb; componentDidMount does not run again.
Reroute(sketchId) ==
    /\ view = "sketch"
    /\ sketchId # route
    /\ route' = sketchId
    /\ ev' = Event("route", sketchId)
    /\ UNCHANGED <<view, sketch, p, touched, menu, leaked, sk>>

\* The frame scheduler of the mounted view's p5 instance ticks.
NavTick ==
    /\ Len(frame(p, sketch).calls) <= NavMaxCalls
    /\ Tick

\* The frame scheduler of a p5 instance that was left behind ticks.
LeakedTick(i) ==
    /\ i \in DOMAIN leaked
    /\ Len(frame(leaked[i].p, leaked[i].sketch).calls) <= NavMaxCalls
    /\ leaked' = [leaked EXCEPT ![i].p = frame(@, leaked[i].sketch)]
    /\ ev' = Event("tick", "leaked")
    /\ UNCHANGED <<view, route, sketch, p, touched, menu, sk>>

\* A mouse click: the window-level listener of every p5 instance runs its
\* mouseClicked.
NavMouseClicked(mouseButton) ==
    /\ IF view = "sketch"
          THEN /\ Len(mouseClicked(p, sketch, mouseButton).calls) <= NavMaxCalls
               /\ p' = mouseClicked([p EXCEPT !.thrown = FALSE], sketch, mouseButton)
               /\ touched' = TRUE
          ELSE UNCHANGED <<p, touched>>
    /\ \A i \in DOMAIN leaked :
          Len(mouseClicked(leaked[i].p, leaked[i].sketch, mouseButton).calls) <= NavMaxCalls
    /\ leaked' = [i \in DOMAIN leaked |->
                    [leaked[i] EXCEPT !.p = mouseClicked(@, leaked[i].sketch, mouseButton)]]
    /\ ev' = Event("click", mouseButton)
    /\ UNCHANGED <<view, route, sketch, menu, sk>>

\* A key press: the window-level listener of every p5 instance runs its
\* keyPressed.
NavKeyPressed(key) ==
    /\ IF view = "sketch"
          THEN /\ Len(keyPressed(p, sketch, key, TRUE).calls) <= NavMaxCalls
               /\ p' = keyPressed([p EXCEPT !.thrown = FALSE], sketch, key, TRUE)
               /\ touched' = TRUE
          ELSE UNCHANGED <<p, touched>>
    /\ \A i \in DOMAIN leaked :
          Len(keyPressed(leaked[i].p, leaked[i].sketch, key, TRUE).calls) <= NavMaxCalls
    /\ leaked' = [i \in DOMAIN leaked |->
                    [leaked[i] EXCEPT !.p = keyPressed(@, leaked[i].sketch, key, TRUE)]]
    /\ ev' = Event("key", key)
    /\ UNCHANGED <<view, route, sketch, menu, sk>>

NextNav ==
    \/ \E sketchId \in NavIds : RunSketch(sketchId)
    \/ Leave
    \/ \E sketchId \in NavIds : Reroute(sketchId)
    \/ NavTick
    \/ \E i \in 1..MaxLeaked : LeakedTick(i)
    \/ \E mouseButton \in NavButtons : NavMouseClicked(mouseButton)
    \/ \E key \in NavKeys : NavKeyPressed(key)

SpecNav == Init /\ [][NextNav]_vars

\* C11: after a navigation to a name the registry does not hold, no sketch
\* has been called and the application still offers a navigation (the
\* selector's links or the link back to the selector).
C11_UnknownNameLeavesAppUsable ==
    (ev.type = "mount" /\ sketch = NotFound) =>
        /\ p.calls = << >>
        /\ \/ ENABLED (\E sketchId \in NavIds : RunSketch(sketchId))
           \/ ENABLED Leave

\* C17: a p5 instance whose view was left makes no further call on its
\* sketch and no longer reacts to input.
C17_LeftHostIsSilent ==
    [][\A i \in DOMAIN leaked : leaked'[i].p = leaked[i].p]_vars

\* C18: whenever the mounted host calls reset or draw, the sketch it calls is
\* the registry entry of the sketch id in the route.
C18_DrivenSketchIsRouted ==
    [][(view' = "sketch" /\ p'.calls # p.calls) => sketch' = get(route')]_vars

\* C12: the map holds as many entries as there are registered instances, and
\* the lookup of each instance's name answers that very instance.
C12_NamesUnique ==
    /\ Cardinality(DOMAIN sketchesMap) = Len(SKETCHES)
    /\ \A i \in DOMAIN SKETCHES : get(SKETCHES[i].name) = SKETCHES[i]
    /\ (view = "sketch" => \E i \in DOMAIN SKETCHES : sketch = SKETCHES[i] /\ route = sketch.name)

\* The most recent instance was looked up by its own name and mounted.
C12_Witness ==
    /\ view = "sketch"
    /\ route = SKETCHES[Len(SKETCHES)].name
    /\ sketch = SKETCHES[Len(SKETCHES)]

\* C13: the selector shows one link per registered instance, the i-th link
\* from the top being the name of the i-th instance from the end of SKETCHES.
C13_SelectorListsLatestFirst ==
    (view = "selector") =>
        /\ Len(menu) = Len(SKETCHES)
        /\ \A i \in 1..Len(SKETCHES) : menu[i] = SKETCHES[Len(SKETCHES) + 1 - i].name
        /\ \A i, j \in 1..Len(menu) : (menu[i] = menu[j]) => (i = j)

\* The selector is shown with the most recent sketch on top and the oldest
\* at the bottom.
C13_Witness ==
    /\ view = "selector"
    /\ Len(menu) > 1
    /\ menu[1] = "Googly Eyes"
    /\ menu[Len(menu)] = "10Print"

\* An input no branch of the handlers takes: a click with another button than
\* the left one, a key other than space, s, p and d, and p on a sketch whose
\* loop field is not true.
IsUnhandled(e, s) ==
    \/ e.type = "click" /\ e.arg # "left"
    \/ e.type = "key" /\ e.arg \notin {" ", "s", "p", "d"}
    \/ e.type = "key" /\ e.arg = "p" /\ ~Truthy(s.loop)

\* C19: an input the host does not handle leaves the loop flag, the call log
\* and the written files as they were.
C19_UnhandledInputIsNoOp ==
    [][IsUnhandled(ev', sketch) => p' = [p EXCEPT !.thrown = FALSE]]_vars

\* The right button was clicked on a running looping sketch.
C19_Witness ==
    /\ ev = Event("click", "right")
    /\ view = "sketch"
    /\ Truthy(sketch.loop)
    /\ p.looping
    /\ Drawn

\* ---------------------------------------------------------------------------
\* CliffordAttractors
\*
\* The sketch iterates the map (x, y) -> (sin(a y) + c cos(a x),
\* sin(b x) + d cos(b y)) on floating point numbers.  The model keeps the
\* control flow of reset and draw and stands a family of maps on a finite
\* ring in for the float map: the parameters select a rotation, whose orbits
\* close after 1, 2 or ClifPoints points, as the float orbits either fall
\* into a small loop or keep producing new points.

\* The points one draw call plots.
ClifPointsPerDraw == 500

\* Below this many distinct points an orbit that closes is skipped.
ClifMinVariance == 500

\* The number of points of the ring: enough for an orbit that is never
\* skipped.
ClifPoints == ClifMinVariance + 100

\* Most runs of reset followed.
MaxClifResets == 4

\* The parameters (a, b, c, d) a reset can pick.
ClifParams == {0, 1, ClifPoints \div 2}

\* (nx, ny) for the point z under the parameters in force.
attractor(params, z) == (z + params) % ClifPoints

\* The instance as constructed: x = 0, y = 0, an empty alreadySeen.  returned
\* tells that the running draw call has left its loop by its return.
NewClifford == [op |-> "new", params |-> 1, x |-> 0, alreadySeen |-> {}, resets |-> 0,
                returned |-> FALSE]

\* CliffordAttractors.reset: clears alreadySeen and picks new parameters;
\* x and y keep their values.
Clifford_reset(s, params) ==
    [s EXCEPT !.alreadySeen = {}, !.params = params, !.resets = @ + 1]

\* One run of the body of the for loop of CliffordAttractors.draw.
Clifford_step(s, params) ==
    LET nx == attractor(s.params, s.x)
    IN  IF nx \in s.alreadySeen /\ Cardinality(s.alreadySeen) < ClifMinVariance
           THEN [Clifford_reset(s, params) EXCEPT !.returned = TRUE]
           ELSE [s EXCEPT !.alreadySeen = @ \cup {nx}, !.x = nx]

\* n consecutive runs of the loop body, none after the return.
RECURSIVE Clifford_loop(_, _, _)
Clifford_loop(s, n, params) ==
    IF s.returned \/ n = 0 THEN s
    ELSE IF n = 1 THEN Clifford_step(s, params)
    ELSE LET half == Clifford_loop(s, n \div 2, params)
         IN  Clifford_loop(half, n - (n \div 2), params)

\* CliffordAttractors.draw; params are the ones a reset it runs would pick.
Clifford_draw(s, params) ==
    [Clifford_loop([s EXCEPT !.returned = FALSE], ClifPointsPerDraw, params)
        EXCEPT !.returned = FALSE]

InitClifford ==
    /\ HostInit
    /\ sk = NewClifford

\* The host calls reset (on mount or on a click or space key).
CliffordReset(params) ==
    /\ sk.resets < MaxClifResets
    /\ sk' = [Clifford_reset(sk, params) EXCEPT !.op = "reset"]
    /\ UNCHANGED hostVars

\* The host calls draw (a frame tick, or the redraw after a reset).
CliffordDraw(params) ==
    /\ sk.op # "new"
    /\ Clifford_draw(sk, params).resets <= MaxClifResets
    /\ sk' = [Clifford_draw(sk, params) EXCEPT !.op = "draw"]
    /\ UNCHANGED hostVars

NextClifford ==
    \/ \E params \in ClifParams : CliffordReset(params)
    \/ \E params \in ClifParams : CliffordDraw(params)

SpecClifford == InitClifford /\ [][NextClifford]_vars

\* C14: reset runs only when the host calls it for a mount or an explicit
\* reset action; a draw call never runs reset.
C14_DrawNeverResets ==
    [][(sk'.resets # sk.resets) => sk'.op = "reset"]_vars

\* ---------------------------------------------------------------------------
\* Walls
\*
\* p.random and p.noise are p5's: after randomSeed(seed) the k-th value of
\* p.random is a function of seed and k, and after noiseSeed(seed) p.noise is
\* a function of seed and its arguments.  Both are kept as terms.

\* Walls.generations
generations == 50

\* The seeds a test replays.
WallsSeeds == {1, 2, 3}

\* Most reset+draw pairs followed.
MaxShots == 4

\* The k-th value p.random yields after randomSeed(seed).
random(seed, k) == <<"random", seed, k>>

\* p.noise(x, y, z) after noiseSeed(seed).
noise(seed, x, y, z) == <<"noise", seed, x, y, z>>

\* The instance as constructed: time = 0.  rng is the state of p5's random
\* source, shots the drawings made so far with the seed and the fields of
\* the instance each was made with.
NewWalls == [op |-> "new", time |-> 0, rng |-> [seed |-> 0, used |-> 0],
             image |-> << >>, shots |-> << >>]

\* randomSeed(seed); noiseSeed(seed)
reseed(s, seed) == [s EXCEPT !.rng = [seed |-> seed, used |-> 0]]

\* Walls.reset
Walls_reset(s) == [s EXCEPT !.time = @ + 1]

\* Walls.drawPlanesStrip: twenty jittered points (two random values each),
\* moved generations times along an angle read from noise(time, id, genId).
Walls_drawPlanesStrip(s, id) ==
    [s EXCEPT
        !.rng.used = @ + 40,
        !.image = Append(@,
            [points |-> [i \in 0..19 |->
                            <<random(s.rng.seed, s.rng.used + 2 * i + 1),
                              random(s.rng.seed, s.rng.used + 2 * i + 2)>>],
             angles |-> [genId \in 0..(generations - 1) |->
                            noise(s.rng.seed, s.time, id, genId)]])]

\* Walls.draw
Walls_draw(s) ==
    Walls_drawPlanesStrip(Walls_drawPlanesStrip([s EXCEPT !.image = << >>], 5), 7)

InitWalls ==
    /\ HostInit
    /\ sk = NewWalls

\* The random and noise sources are set to replay seed and the host calls
\* reset.
WallsReset(seed) ==
    /\ sk.op \in {"new", "draw"}
    /\ Len(sk.shots) < MaxShots
    /\ sk' = [Walls_reset(reseed(sk, seed)) EXCEPT !.op = "reset"]
    /\ UNCHANGED hostVars

\* The host calls draw, once after the reset: Walls does not loop.
WallsDraw ==
    /\ sk.op = "reset"
    /\ sk' = [Walls_draw(sk) EXCEPT
                !.op = "draw",
                !.shots = Append(@, [seed |-> sk.rng.seed,
                                     image |-> Walls_draw(sk).image,
                                     time |-> Walls_draw(sk).time])]
    /\ UNCHANGED hostVars

NextWalls ==
    \/ \E seed \in WallsSeeds : WallsReset(seed)
    \/ WallsDraw

SpecWalls == InitWalls /\ [][NextWalls]_vars

\* C15: two consecutive reset+draw pairs that replay the same seed make the
\* same drawing and leave the instance with the same fields.
C15_ResetDeterminism ==
    \A i \in 1..(Len(sk.shots) - 1) :
        (sk.shots[i].seed = sk.shots[i + 1].seed) =>
            /\ sk.shots[i].image = sk.shots[i + 1].image
            /\ sk.shots[i].time = sk.shots[i + 1].time

\* ---------------------------------------------------------------------------
\* Dla (diffusion limited aggregation)
\*
\* Positions are in pixels relative to the seed and sampled on a grid whose
\* step is the length of one step of the random walk.  Particles are held in
\* a list and name their parent by its index in the list (0 for null).

\* Radius of the seed particle.
SeedRadius == 16

\* Radius of a spawned particle, and the length of a step of its walk.
ParticleRadius == 8

\* How far around the aggregate a particle spawns and may walk.
SpawnMargin == 50

\* Most draw calls followed after a reset.
MaxDlaDraws == 2

\* Values of p.random(1), in hundredths.
Rolls == {0, 50}

\* p5.Vector.dist, squared.
dist2(a, b) == (a[1] - b[1]) * (a[1] - b[1]) + (a[2] - b[2]) * (a[2] - b[2])

Min(a, b) == IF a < b THEN a ELSE b

Max(a, b) == IF a > b THEN a ELSE b

\* Bbox.expand
expand(bbox, q) ==
    [lower |-> <<Min(bbox.lower[1], q[1]), Min(bbox.lower[2], q[2])>>,
     upper |-> <<Max(bbox.upper[1], q[1]), Max(bbox.upper[2], q[2])>>]

\* Bbox.enlarge
enlarge(bbox, r) ==
    [lower |-> <<bbox.lower[1] - r, bbox.lower[2] - r>>,
     upper |-> <<bbox.upper[1] + r, bbox.upper[2] + r>>]

\* Bbox.contains
contains(bbox, q) ==
    /\ bbox.lower[1] <= q[1] /\ bbox.upper[1] >= q[1]
    /\ bbox.lower[2] <= q[2] /\ bbox.upper[2] >= q[2]

\* The sampled positions inside a box.
GridIn(bbox) ==
    {q \in (bbox.lower[1]..bbox.upper[1]) \X (bbox.lower[2]..bbox.upper[2]) :
        q[1] % ParticleRadius = 0 /\ q[2] % ParticleRadius = 0}

\* The predicate of particles.find in draw.
touches(e, q) ==
    dist2(e.position, q) < (e.radius + ParticleRadius) * (e.radius + ParticleRadius)

\* particles.find: the index of the first particle that touches q, 0 if none.
find(particles, q) ==
    IF \E i \in DOMAIN particles : touches(particles[i], q)
       THEN CHOOSE i \in DOMAIN particles :
                /\ touches(particles[i], q)
                /\ \A j \in 1..(i - 1) : ~touches(particles[j], q)
       ELSE 0

\* The instance as constructed.
NewDla == [op |-> "new", particles |-> << >>,
           particlesBbox |-> [lower |-> <<0, 0>>, upper |-> <<0, 0>>],
           stickiness |-> 100, draws |-> 0]

\* Dla.reset: the aggregate is the seed alone.  draws counts the draw calls
\* since.
Dla_reset(s, stickiness) ==
    [s EXCEPT !.particles = <<[position |-> <<0, 0>>, radius |-> SeedRadius, parent |-> 0]>>,
              !.particlesBbox = [lower |-> <<0, 0>>, upper |-> <<0, 0>>],
              !.stickiness = stickiness,
              !.draws = 0]

\* Whether the walk of draw can end at q with the value roll of p.random():
\* q is inside the spawn box, a particle touches it, and roll does not exceed
\* the stickiness.  The walk starts anywhere in the spawn box within the
\* container radius and is not held back by the container afterwards.
sticks(s, q, roll) ==
    /\ contains(enlarge(s.particlesBbox, SpawnMargin), q)
    /\ find(s.particles, q) # 0
    /\ ~(roll > s.stickiness)

\* A draw that makes the new particle its own parent.
Dla_draw_ownParent(s, q) ==
    [s EXCEPT !.particles = Append(@, [position |-> q, radius |-> ParticleRadius,
                                        parent |-> Len(s.particles) + 1]),
              !.particlesBbox = expand(@, q),
              !.draws = @ + 1]

\* Dla.draw, for a walk that ends at q: the particle is appended with the
\* neighbour found as its parent and the box is expanded.
Dla_draw(s, q) ==
    [s EXCEPT !.particles = Append(@, [position |-> q, radius |-> ParticleRadius,
                                        parent |-> find(s.particles, q)]),
              !.particlesBbox = expand(@, q),
              !.draws = @ + 1]

InitDla ==
    /\ HostInit
    /\ sk = NewDla

DlaReset(stickiness) ==
    /\ sk' = [Dla_reset(sk, stickiness) EXCEPT !.op = "reset"]
    /\ UNCHANGED hostVars

DlaDraw(q, roll) ==
    /\ sk.op # "new"
    /\ sk.draws < MaxDlaDraws
    /\ sticks(sk, q, roll)
    /\ sk' = [Dla_draw(sk, q) EXCEPT !.op = "draw"]
    /\ UNCHANGED hostVars

NextDla ==
    \/ \E stickiness \in Rolls : DlaReset(stickiness)
    \/ \E q \in GridIn(enlarge(sk.particlesBbox, SpawnMargin)), roll \in Rolls :
            DlaDraw(q, roll)

SpecDla == InitDla /\ [][NextDla]_vars

\* C16: after a reset, however many draw calls follow, the list of particles
\* stays within a bound fixed beforehand; the bound tried is the number of
\* draw calls followed, whatever that number is.
C16_CollectionsStayBounded ==
    Len(sk.particles) <= MaxDlaDraws

\* The loop of draw that follows the parents from particle pa: where it
\* stands after at most n steps, 0 once it has met null.
RECURSIVE followParents(_, _, _)
followParents(particles, pa, n) ==
    IF pa = 0 \/ n = 0 THEN pa
    ELSE followParents(particles, particles[pa].parent, n - 1)

\* C26: a draw call appends exactly one particle and its parent is one of
\* the particles there were; the seed is the only particle without parent,
\* and following the parents from any particle meets null within as many
\* steps as there are particles.
C26_ParentsFormTree ==
    /\ [][(sk'.op = "draw") =>
             /\ Len(sk'.particles) = Len(sk.particles) + 1
             /\ SubSeq(sk'.particles, 1, Len(sk.particles)) = sk.particles
             /\ sk'.particles[Len(sk'.particles)].parent \in DOMAIN sk.particles]_vars
    /\ [](\A n \in DOMAIN sk.particles :
             /\ (sk.particles[n].parent = 0) <=> (n = 1)
             /\ followParents(sk.particles, n, Len(sk.particles)) = 0)

C26_Witness ==
    /\ sk.op = "draw"
    /\ Len(sk.particles) >= 3
    /\ sk.particles[3].parent = 2
    /\ sk.particles[2].parent = 1

\* ---------------------------------------------------------------------------
\* Sorting algorithms
\*
\* Each generator is the list of the arrays it yields, each taken when it is
\* yielded, as Sorting.draw takes them with step.slice().  Indices are the
\* code's, from 0.

\* Longest input array.
MaxLen == 3

\* Largest number in an input array.
MaxVal == 3

\* The input arrays, repeated numbers included.
Arrays == UNION {[1..n -> 1..MaxVal] : n \in 0..MaxLen}

\* numbers[i]
at(numbers, i) == numbers[i + 1]

\* A swap without the temporary.
swap_noTmp(numbers, i, j) ==
    [numbers EXCEPT ![i + 1] = at(numbers, j), ![j + 1] = at(numbers, j)]

\* swap
swap(numbers, i, j) ==
    [numbers EXCEPT ![i + 1] = at(numbers, j), ![j + 1] = at(numbers, i)]

\* selectionSort: the loop over j.
RECURSIVE selectionSort_jMin(_, _, _)
selectionSort_jMin(numbers, j, jMin) ==
    IF ~(j < Len(numbers)) THEN jMin
    ELSE selectionSort_jMin(numbers, j + 1,
                            IF at(numbers, j) < at(numbers, jMin) THEN j ELSE jMin)

\* selectionSort: the loop over i, from i on.
RECURSIVE selectionSort_from(_, _, _)
selectionSort_from(numbers, i, passes) ==
    IF ~(i < Len(numbers) - 1) THEN passes
    ELSE LET jMin == selectionSort_jMin(numbers, i + 1, i)
             swapped == IF jMin # i THEN swap(numbers, i, jMin) ELSE numbers
         IN  selectionSort_from(swapped, i + 1, Append(passes, swapped))

\* selectionSort
selectionSort(numbers) == selectionSort_from(numbers, 0, << >>)

\* bubbleSort: the loop over i.
RECURSIVE bubbleSort_pass(_, _, _, _)
bubbleSort_pass(numbers, i, n, newn) ==
    IF ~(i < n) THEN [numbers |-> numbers, newn |-> newn]
    ELSE IF at(numbers, i - 1) > at(numbers, i)
            THEN bubbleSort_pass(swap(numbers, i - 1, i), i + 1, n, i)
            ELSE bubbleSort_pass(numbers, i + 1, n, newn)

\* bubbleSort: the do-while loop.
RECURSIVE bubbleSort_do(_, _, _)
bubbleSort_do(numbers, n, passes) ==
    LET pass == bubbleSort_pass(numbers, 1, n, 0)
        yielded == Append(passes, pass.numbers)
    IN  IF pass.newn > 1 THEN bubbleSort_do(pass.numbers, pass.newn, yielded)
        ELSE yielded

\* bubbleSort
bubbleSort(numbers) == bubbleSort_do(numbers, Len(numbers), << >>)

\* partition: the loop over i.
RECURSIVE partition_loop(_, _, _, _, _)
partition_loop(numbers, i, right, pivotValue, partitionIndex) ==
    IF ~(i < right) THEN [numbers |-> numbers, partitionIndex |-> partitionIndex]
    ELSE IF at(numbers, i) < pivotValue
            THEN partition_loop(swap(numbers, i, partitionIndex), i + 1, right,
                                pivotValue, partitionIndex + 1)
            ELSE partition_loop(numbers, i + 1, right, pivotValue, partitionIndex)

\* partition
partition(numbers, pivot, left, right) ==
    LET done == partition_loop(numbers, left, right, at(numbers, pivot), left)
    IN  [numbers |-> swap(done.numbers, right, done.partitionIndex),
         partitionIndex |-> done.partitionIndex]

\* quickSort(numbers, left, right); g holds the array and the passes yielded
\* so far.
RECURSIVE quickSort_range(_, _, _)
quickSort_range(g, left, right) ==
    IF left >= right THEN [g EXCEPT !.passes = Append(@, g.numbers)]
    ELSE LET parted == partition(g.numbers, right, left, right)
             yielded == [numbers |-> parted.numbers,
                         passes |-> Append(g.passes, parted.numbers)]
             lower == quickSort_range(yielded, left, parted.partitionIndex - 1)
         IN  quickSort_range(lower, parted.partitionIndex + 1, right)

\* quickSort
quickSort(numbers) ==
    quickSort_range([numbers |-> numbers, passes |-> << >>], 0, Len(numbers) - 1).passes

\* Sorting.draw: the input followed by the passes, and the test that warns
\* "not sorted" on the last of them.
Sorting_passes(numbers, yielded) == <<numbers>> \o yielded

IsSorted(pass) == \A i \in 1..(Len(pass) - 1) : ~(pass[i] > pass[i + 1])

Sorting_warns(numbers, yielded) ==
    ~IsSorted(Sorting_passes(numbers, yielded)[Len(yielded) + 1])

IsPermutation(pass, numbers) ==
    /\ Len(pass) = Len(numbers)
    /\ \A v \in 1..MaxVal :
          Cardinality({i \in DOMAIN pass : pass[i] = v})
              = Cardinality({i \in DOMAIN numbers : numbers[i] = v})

InitSort ==
    /\ HostInit
    /\ \E numbers \in Arrays : sk = [op |-> "input", numbers |-> numbers, passes |-> << >>]

SelectionSort ==
    /\ sk.op = "input"
    /\ sk' = [sk EXCEPT !.op = "selectionSort", !.passes = selectionSort(sk.numbers)]
    /\ UNCHANGED hostVars

BubbleSort ==
    /\ sk.op = "input"
    /\ sk' = [sk EXCEPT !.op = "bubbleSort", !.passes = bubbleSort(sk.numbers)]
    /\ UNCHANGED hostVars

QuickSort ==
    /\ sk.op = "input"
    /\ sk' = [sk EXCEPT !.op = "quickSort", !.passes = quickSort(sk.numbers)]
    /\ UNCHANGED hostVars

NextSort == SelectionSort \/ BubbleSort \/ QuickSort

SpecSort == InitSort /\ [][NextSort]_vars

PenroseSeeds == 10

\* The length from which draw stops subdividing.
PenroseLimit == 100000

\* Most draw calls followed after a reset, and most resets followed.
MaxPenroseDraws == 13

MaxPenroseResets == 8

\* triangles.length
length(triangles) == triangles.small + triangles.big

\* The instance as constructed: no triangles.  draws counts the draw calls
\* since the last reset, resets the resets so far.
NewPenrose == [op |-> "new", triangles |-> [small |-> 0, big |-> 0],
               draws |-> 0, resets |-> 0]

\* PenroseTiling.reset: ten small triangles around the origin.
Penrose_reset(s) ==
    [s EXCEPT !.triangles = [small |-> PenroseSeeds, big |-> 0],
              !.draws = 0, !.resets = @ + 1]

\* PenroseTiling.subdivide: a big triangle becomes two big and one small, a
\* small one becomes one small and one big.
subdivide(triangles) ==
    [small |-> triangles.big + triangles.small,
     big |-> 2 * triangles.big + triangles.small]

\* A draw that subdivides whatever the length.
Penrose_draw_noLimit(s) ==
    [s EXCEPT !.triangles = subdivide(@), !.draws = @ + 1]

\* PenroseTiling.draw: paint the list, then subdivide it while it is short.
Penrose_draw(s) ==
    [s EXCEPT !.triangles = IF length(@) < PenroseLimit THEN subdivide(@) ELSE @,
              !.draws = @ + 1]

InitPenrose ==
    /\ HostInit
    /\ sk = NewPenrose

PenroseReset ==
    /\ sk.resets < MaxPenroseResets
    /\ sk' = [Penrose_reset(sk) EXCEPT !.op = "reset"]
    /\ UNCHANGED hostVars

PenroseDraw ==
    /\ sk.op # "new"
    /\ sk.draws < MaxPenroseDraws
    /\ sk' = [Penrose_draw(sk) EXCEPT !.op = "draw"]
    /\ UNCHANGED hostVars

NextPenrose == PenroseReset \/ PenroseDraw

SpecPenrose == InitPenrose /\ [][NextPenrose]_vars

\* C21: a reset leaves exactly ten triangles; a draw never shortens the list,
\* turns every big triangle into three and every small one into two while the
\* list is shorter than 100000 and leaves the list alone otherwise; the
\* length never exceeds 3 x 99999.
C21_PenroseLength ==
    [][/\ (sk'.op = "reset") => length(sk'.triangles) = 10
       /\ (sk'.op = "draw") =>
            /\ length(sk'.triangles) >= length(sk.triangles)
            /\ length(sk'.triangles) <= 3 * 99999
            /\ (length(sk.triangles) < 100000) =>
                  length(sk'.triangles) = 3 * sk.triangles.big + 2 * sk.triangles.small
            /\ (length(sk.triangles) >= 100000) => sk'.triangles = sk.triangles]_vars

C21_Witness ==
    /\ sk.op = "draw"
    /\ length(sk.triangles) >= 100000
    /\ sk.draws >= 12
\* ---------------------------------------------------------------------------
\* LightInACave
\*
\* maxIterations is a real number; it is kept in halves (maxIterations2 is
\* twice its value) so that values that are not whole occur.

\* The range reset draws maxIterations from.
CaveIterationsFrom == 600

CaveIterationsTo == 800

\* Most draw calls followed after the last one that draws.
MaxCaveIdle == 3

\* Values of 2 * p.random(600, 800): the least, one that is not whole, and
\* the greatest.
CaveMaxima2 == {2 * CaveIterationsFrom, 2 * CaveIterationsFrom + 1, 2 * CaveIterationsTo - 1}

\* Math.ceil of a number given in halves.
ceil2(x2) == (x2 + 1) \div 2

\* The instance as constructed.  spirals counts the calls of drawSpiral since
\* the last reset, drew tells whether the last draw called it.
NewCave == [op |-> "new", maxIterations2 |-> 0, it |-> 0, spirals |-> 0, drew |-> FALSE]

\* LightInACave.reset
Cave_reset(s, maxIterations2) ==
    [s EXCEPT !.maxIterations2 = maxIterations2, !.it = 0, !.spirals = 0, !.drew = FALSE]

\* A draw whose test is it++ > maxIterations.
Cave_draw_offByOne(s) ==
    IF 2 * s.it > s.maxIterations2
       THEN [s EXCEPT !.it = @ + 1, !.drew = FALSE]
       ELSE [s EXCEPT !.it = @ + 1, !.drew = TRUE, !.spirals = @ + 1]

\* LightInACave.draw: it++ >= maxIterations returns, otherwise a spiral is
\* drawn.
Cave_draw(s) ==
    IF 2 * s.it >= s.maxIterations2
       THEN [s EXCEPT !.it = @ + 1, !.drew = FALSE]
       ELSE [s EXCEPT !.it = @ + 1, !.drew = TRUE, !.spirals = @ + 1]

InitCave ==
    /\ HostInit
    /\ sk = NewCave

CaveReset(maxIterations2) ==
    /\ sk' = [Cave_reset(sk, maxIterations2) EXCEPT !.op = "reset"]
    /\ UNCHANGED hostVars

CaveDraw ==
    /\ sk.it < ceil2(sk.maxIterations2) + MaxCaveIdle
    /\ sk' = [Cave_draw(sk) EXCEPT !.op = "draw"]
    /\ UNCHANGED hostVars

NextCave ==
    \/ \E maxIterations2 \in CaveMaxima2 : CaveReset(maxIterations2)
    \/ CaveDraw

SpecCave == InitCave /\ [][NextCave]_vars

\* C22: a reset sets the iteration counter to 0; after it at most
\* ceil(maxIterations) draw calls draw a spiral, and every draw call after
\* the first ceil(maxIterations) draws nothing.
C22_SpiralsStop ==
    /\ (sk.op = "reset") => sk.it = 0
    /\ sk.spirals <= ceil2(sk.maxIterations2)
    /\ (sk.op = "draw" /\ sk.it > ceil2(sk.maxIterations2)) => ~sk.drew

C22_Witness ==
    /\ sk.op = "draw"
    /\ sk.maxIterations2 % 2 = 1
    /\ sk.spirals = ceil2(sk.maxIterations2)
    /\ sk.it >= sk.spirals + 2
    /\ ~sk.drew
\* ---------------------------------------------------------------------------
\* NeonLines (rectangle subdivision)
\*
\* A rectangle made by k halvings is width / 2^k by height / 2^k wherever it
\* lies, so the pool rects is kept as the bag of the k of its rectangles.
\* draw is followed one iteration of its loop at a time; i is the loop
\* counter.

NeonLines_width == 600

NeonLines_height == 600

\* NeonLines.lines
NeonLines_lines == 500

\* The area a sub-rectangle must exceed to be pushed.
NeonLines_minArea == 100

\* subRect[2] * subRect[3] > 100 for the quarters of a rectangle of level k.
pushes(k) ==
    NeonLines_width * NeonLines_height > NeonLines_minArea * 4 ^ (k + 1)

\* The instance as constructed: it has no fields that change; rects and i
\* are the locals of the draw call under way, thrown tells that rects[ri]
\* was read from an empty pool.
NewNeonLines == [op |-> "new", rects |-> EmptyBag, i |-> 0, thrown |-> FALSE]

\* NeonLines.draw up to the loop: the pool is the whole canvas.
NeonLines_begin(s) == [s EXCEPT !.rects = SetToBag({0}), !.i = 0]

\* An iteration that pushes no sub-rectangle.
NeonLines_iterate_noPush(s, k) ==
    IF s.rects = EmptyBag
       THEN [s EXCEPT !.thrown = TRUE]
       ELSE [s EXCEPT !.rects = @ (-) SetToBag({k}), !.i = @ + 1]

\* One iteration of the loop of draw, the pick falling on a rectangle of
\* level k: it is spliced out and its quarters are pushed if large enough.
\* Destructuring rects[ri] of an empty pool throws.
NeonLines_iterate(s, k) ==
    IF s.rects = EmptyBag
       THEN [s EXCEPT !.thrown = TRUE]
       ELSE [s EXCEPT
                !.rects = (@ (-) SetToBag({k}))
                              (+) (IF pushes(k) THEN [q \in {k + 1} |-> 4] ELSE EmptyBag),
                !.i = @ + 1]

\* The levels the pick is tried on: the largest and the smallest rectangle
\* of the pool (any level when the pool is empty and the read fails).
Picks(rects) ==
    IF rects = EmptyBag THEN {0}
    ELSE {k \in BagToSet(rects) :
            \/ \A j \in BagToSet(rects) : k <= j
            \/ \A j \in BagToSet(rects) : k >= j}

InitNeonLines ==
    /\ HostInit
    /\ sk = NewNeonLines

\* NeonLines.reset followed by the start of draw.
NeonLinesBegin ==
    /\ sk.op \in {"new", "drawn"}
    /\ sk' = [NeonLines_begin(sk) EXCEPT !.op = "loop"]
    /\ UNCHANGED hostVars

NeonLinesIterate(k) ==
    /\ sk.op = "loop"
    /\ ~sk.thrown
    /\ sk.i < NeonLines_lines
    /\ sk' = NeonLines_iterate(sk, k)
    /\ UNCHANGED hostVars

\* The loop ends and draw returns.
NeonLinesReturn ==
    /\ sk.op = "loop"
    /\ ~sk.thrown
    /\ ~(sk.i < NeonLines_lines)
    /\ sk' = [sk EXCEPT !.op = "drawn"]
    /\ UNCHANGED hostVars

NextNeonLines ==
    \/ NeonLinesBegin
    \/ \E k \in Picks(sk.rects) : NeonLinesIterate(k)
    \/ NeonLinesReturn

SpecNeonLines == InitNeonLines /\ [][NextNeonLines]_vars

\* C23: at the start of each of the 500 iterations of draw the pool holds a
\* rectangle, and draw never throws.
C23_PoolNeverEmpty ==
    /\ ~sk.thrown
    /\ (sk.op = "loop" /\ sk.i < 500) => BagCardinality(sk.rects) >= 1

C23_Witness ==
    /\ sk.op = "drawn"
    /\ sk.i = 500
    /\ BagCardinality(sk.rects) < 10
    /\ \E k \in BagToSet(sk.rects) : ~pushes(k)
\* ---------------------------------------------------------------------------
\* CairoTiling
\*
\* The neighbours of a centre lie at +-u and +-v with
\*   u = (2 size + sl / 2, -sh),  v = (sh, 2 size + sl / 2),
\*   2 size + sl / 2 = size (3 + sqrt 3) / 2,  sh = size (3 - sqrt 3) / 2,
\* so every centre is start + a u + b v for whole a and b, and a pentagon is
\* kept as <<a, b>>.  Coordinates are numbers (r + i sqrt 3) / 2 with whole r
\* and i, kept as the records [r, i], and compared exactly.

CairoTiling_width == 1920

CairoTiling_height == 1080

\* The size reset gives the pentagons.
CairoTiling_size == 20

\* r + i sqrt 3 < 0
IsNegative(r, i) ==
    IF i = 0 THEN r < 0
    ELSE IF i > 0 THEN r < 0 /\ r * r > 3 * i * i
    ELSE r <= 0 \/ r * r < 3 * i * i

\* Twice cx and twice cy of the pentagon c.
cx2(c) == [r |-> CairoTiling_width + 3 * CairoTiling_size * (c[1] + c[2]),
           i |-> CairoTiling_size * (c[1] - c[2])]

cy2(c) == [r |-> CairoTiling_height + 3 * CairoTiling_size * (c[2] - c[1]),
           i |-> CairoTiling_size * (c[1] + c[2])]

\* CairoTiling.isPentagonHidden, with delta = 1.5 size:
\* cx + delta < 0 || cy + delta < 0 || cx - delta > width || cy - delta > height
isPentagonHidden(c) ==
    LET delta2 == 3 * CairoTiling_size
    IN  \/ IsNegative(cx2(c).r + delta2, cx2(c).i)
        \/ IsNegative(cy2(c).r + delta2, cy2(c).i)
        \/ IsNegative(2 * CairoTiling_width + delta2 - cx2(c).r, -cx2(c).i)
        \/ IsNegative(2 * CairoTiling_height + delta2 - cy2(c).r, -cy2(c).i)

\* A hasSeen that finds nothing.
hasSeen_never(alreadySeen, c) == FALSE

\* CairoTiling.hasSeen: a centre within 1e-6 of c on both axes is recorded.
\* Centres of different <<a, b>> are more than 48 pixels apart.
hasSeen(alreadySeen, c) == \E ix \in DOMAIN alreadySeen : alreadySeen[ix] = c

\* The four pentagons draw pushes, in its order.
neighbours(c) ==
    <<<<c[1] + 1, c[2]>>, <<c[1] - 1, c[2]>>, <<c[1], c[2] + 1>>, <<c[1], c[2] - 1>>>>

\* The instance as constructed.  tiles lists the pentagons given to drawTile
\* since the last reset; broke tells that the loop of draw was left by break.
NewCairo == [op |-> "new", stack |-> << >>, alreadySeen |-> << >>,
             tiles |-> << >>, broke |-> FALSE]

\* CairoTiling.reset
Cairo_reset(s) ==
    [s EXCEPT !.stack = <<<<0, 0>>>>, !.alreadySeen = << >>, !.tiles = << >>]

\* An iteration whose continue leaves the pentagon on the stack.
Cairo_iterate_noPop(s) ==
    IF s.broke \/ s.stack = << >> THEN s
    ELSE LET c == s.stack[Len(s.stack)]
             popped == SubSeq(s.stack, 1, Len(s.stack) - 1)
         IN  IF isPentagonHidden(c) \/ hasSeen(s.alreadySeen, c)
                THEN s
                ELSE [s EXCEPT !.stack = popped \o neighbours(c),
                               !.alreadySeen = Append(@, c),
                               !.tiles = Append(@, c),
                               !.broke = TRUE]

\* One iteration of the loop of draw.
Cairo_iterate(s) ==
    IF s.broke \/ s.stack = << >> THEN s
    ELSE LET c == s.stack[Len(s.stack)]
             popped == SubSeq(s.stack, 1, Len(s.stack) - 1)
         IN  IF isPentagonHidden(c) \/ hasSeen(s.alreadySeen, c)
                THEN [s EXCEPT !.stack = popped]
                ELSE [s EXCEPT !.stack = popped \o neighbours(c),
                               !.alreadySeen = Append(@, c),
                               !.tiles = Append(@, c),
                               !.broke = TRUE]

\* Up to n iterations of the loop of draw.
RECURSIVE Cairo_loop(_, _)
Cairo_loop(s, n) ==
    IF n = 0 \/ s.broke \/ s.stack = << >> THEN s
    ELSE IF n = 1 THEN Cairo_iterate(s)
    ELSE LET half == Cairo_loop(s, n \div 2)
         IN  Cairo_loop(half, n - (n \div 2))

\* CairoTiling.draw: the loop pops at most what the stack holds, as it
\* breaks after the only push.
Cairo_draw(s) ==
    [Cairo_loop([s EXCEPT !.broke = FALSE], Len(s.stack)) EXCEPT !.broke = FALSE]

InitCairo ==
    /\ HostInit
    /\ sk = NewCairo

CairoReset ==
    /\ sk' = [Cairo_reset(sk) EXCEPT !.op = "reset"]
    /\ UNCHANGED hostVars

CairoDraw ==
    /\ sk' = [Cairo_draw(sk) EXCEPT !.op = "draw"]
    /\ UNCHANGED hostVars

NextCairo == CairoReset \/ CairoDraw

SpecCairo == InitCairo /\ [][NextCairo]_vars

NoRepeat(seq) == Cardinality({seq[m] : m \in DOMAIN seq}) = Len(seq)

\* C24: a draw call draws at most one tile; the tiles drawn since the last
\* reset have pairwise different centres; a tile is drawn only if it is not
\* hidden and its centre was not recorded, and it is recorded when drawn; a
\* draw that draws nothing pushes nothing.
C24_OneNewTilePerDraw ==
    [][(sk'.op = "draw") =>
          /\ Len(sk'.tiles) <= Len(sk.tiles) + 1
          /\ NoRepeat(sk'.tiles)
          /\ (Len(sk'.tiles) = Len(sk.tiles) + 1) =>
                LET c == sk'.tiles[Len(sk'.tiles)]
                IN  /\ ~isPentagonHidden(c)
                    /\ ~hasSeen(sk.alreadySeen, c)
                    /\ hasSeen(sk'.alreadySeen, c)
          /\ (Len(sk'.tiles) = Len(sk.tiles)) =>
                /\ sk'.stack = << >>
                /\ sk'.alreadySeen = sk.alreadySeen]_vars

C24_Witness ==
    /\ sk.op = "draw"
    /\ Len(sk.tiles) >= 100
    /\ \E k \in DOMAIN sk.stack : hasSeen(sk.alreadySeen, sk.stack[k])
    /\ \E k \in DOMAIN sk.stack : isPentagonHidden(sk.stack[k])
\* A session of the host, with draw followed one iteration of its loop at a
\* time: setup resets once, p5 calls draw on every frame (CairoTiling.loop is
\* true), and a call that has begun runs on until it returns.
CairoSetup ==
    /\ sk.op = "new"
    /\ CairoReset

\* draw is called.
CairoEnter ==
    /\ sk.op \in {"reset", "draw"}
    /\ sk' = [sk EXCEPT !.op = "loop", !.broke = FALSE]
    /\ UNCHANGED hostVars

\* The body of while (this.stack.length > 0) runs once.
CairoIterate ==
    /\ sk.op = "loop"
    /\ ~sk.broke
    /\ sk.stack # << >>
    /\ sk' = Cairo_iterate(sk)
    /\ UNCHANGED hostVars

\* The loop is left, by break or with the stack empty, and draw returns.
CairoReturn ==
    /\ sk.op = "loop"
    /\ sk.broke \/ sk.stack = << >>
    /\ sk' = [sk EXCEPT !.op = "draw", !.broke = FALSE]
    /\ UNCHANGED hostVars

NextCairoLive == CairoSetup \/ CairoEnter \/ CairoIterate \/ CairoReturn

SpecCairoLive ==
    /\ InitCairo
    /\ [][NextCairoLive]_vars
    /\ WF_vars(CairoEnter)
    /\ WF_vars(CairoIterate)
    /\ WF_vars(CairoReturn)

\* A pentagon <<a, b>> with |a| or |b| beyond CairoReach is hidden: its
\* centre is more than 2 size max(|a|, |b|) away from the centre of the
\* canvas, and a centre that is not hidden is within
\* (width + height) / 2 + 3 size of it.
CairoReach ==
    (CairoTiling_width + CairoTiling_height + 6 * CairoTiling_size)
        \div (4 * CairoTiling_size)

\* The pentagons of the lattice that are not hidden.
Visible ==
    {c \in (-CairoReach..CairoReach) \X (-CairoReach..CairoReach) : ~isPentagonHidden(c)}

\* C25: every draw call returns; after the reset the draw calls lead to an
\* empty stack; when a draw call has returned with the stack empty every
\* pentagon that is not hidden has been drawn; and with the stack empty
\* nothing but a reset changes the stack or what is recorded and drawn.
C25_StackEmpties ==
    /\ (sk.op = "loop") ~> (sk.op = "draw")
    /\ (sk.op = "reset") ~> (sk.op = "draw" /\ sk.stack = << >>)
    /\ []((sk.op = "draw" /\ sk.stack = << >>) =>
              Visible \subseteq {sk.tiles[k] : k \in DOMAIN sk.tiles})
    /\ [][(sk.stack = << >> /\ sk'.op # "reset") =>
             /\ sk'.stack = << >>
             /\ sk'.alreadySeen = sk.alreadySeen
             /\ sk'.tiles = sk.tiles]_vars

C25_Witness ==
    /\ sk.op = "draw"
    /\ sk.stack = << >>
    /\ Len(sk.tiles) = Cardinality(Visible)
    /\ Len(sk.tiles) >= 100
\* ---------------------------------------------------------------------------
\* Scribbles (container version)
\*
\* Of a position only whether the container contains it decides anything, so
\* a position is "in" or "out".  Container.random yields a position the
\* container contains, for each of Rect, Circle and Triangle.

\* Most particles a reset creates (the code: up to 9), and most draw calls
\* followed after a reset.
MaxScribbles == 2

MaxScribbleDraws == 4

\* Scribbles.genParticle at a position of container.random
genParticle == [alive |-> TRUE, position |-> "in", path |-> << >>]

\* The instance as constructed.  created is the number of particles the last
\* reset made, draws counts the draw calls since.
NewScribbles == [op |-> "new", particles |-> << >>, created |-> 0, draws |-> 0]

\* Scribbles.reset, with n = Math.ceil of p.random(1, 9).
Scribbles_reset(s, n) ==
    [s EXCEPT !.particles = [i \in 1..n |-> genParticle], !.created = n, !.draws = 0]

\* A visit that does not replace a particle that left.
Scribbles_visit_noReplace(s, i, outside) ==
    LET particle == s.particles[i]
        left == particle.alive /\ particle.position = "out"
        alive == particle.alive /\ ~left
        moved == IF alive
                    THEN [particle EXCEPT
                            !.path = Append(@, particle.position),
                            !.position = IF i \in outside THEN "out" ELSE "in"]
                    ELSE [particle EXCEPT !.alive = FALSE]
    IN  [s EXCEPT !.particles = [@ EXCEPT ![i] = moved]]

\* The body of the loop of draw for the i-th particle: one that is alive and
\* not contained dies and a new one is pushed; one that is alive records its
\* position and moves, to a position not contained if i is in outside.
Scribbles_visit(s, i, outside) ==
    LET particle == s.particles[i]
        left == particle.alive /\ particle.position = "out"
        alive == particle.alive /\ ~left
        moved == IF alive
                    THEN [particle EXCEPT
                            !.path = Append(@, particle.position),
                            !.position = IF i \in outside THEN "out" ELSE "in"]
                    ELSE [particle EXCEPT !.alive = FALSE]
    IN  [s EXCEPT !.particles =
                     IF left THEN Append([@ EXCEPT ![i] = moved], genParticle)
                     ELSE [@ EXCEPT ![i] = moved]]

\* for (const particle of this.particles), from the i-th on: the particles
\* pushed meanwhile are visited too.
RECURSIVE Scribbles_loop(_, _, _)
Scribbles_loop(s, i, outside) ==
    IF i > Len(s.particles) THEN s
    ELSE Scribbles_loop(Scribbles_visit(s, i, outside), i + 1, outside)

\* Scribbles.draw
Scribbles_draw(s, outside) ==
    [Scribbles_loop(s, 1, outside) EXCEPT !.draws = @ + 1]

\* The number of particles alive.
Alive(particles) == Cardinality({i \in DOMAIN particles : particles[i].alive})

\* The particles that move in a draw call: those alive and contained, and
\* those pushed in the call for the ones that left.
Movers(particles) ==
    LET left == {i \in DOMAIN particles :
                    particles[i].alive /\ particles[i].position = "out"}
    IN  {i \in DOMAIN particles : particles[i].alive /\ particles[i].position = "in"}
            \cup ((Len(particles) + 1)..(Len(particles) + Cardinality(left)))

InitScribbles ==
    /\ HostInit
    /\ sk = NewScribbles

ScribblesReset(n) ==
    /\ sk' = [Scribbles_reset(sk, n) EXCEPT !.op = "reset"]
    /\ UNCHANGED hostVars

\* outside: the particles whose move of this call ends outside the
\* container.
ScribblesDraw(outside) ==
    /\ sk.op # "new"
    /\ sk.draws < MaxScribbleDraws
    /\ sk' = [Scribbles_draw(sk, outside) EXCEPT !.op = "draw"]
    /\ UNCHANGED hostVars

NextScribbles ==
    \/ \E n \in 1..MaxScribbles : ScribblesReset(n)
    \/ \E outside \in SUBSET Movers(sk.particles) : ScribblesDraw(outside)

SpecScribbles == InitScribbles /\ [][NextScribbles]_vars

\* C27: after every reset and every draw call as many particles are alive as
\* the last reset created; a draw call kills exactly the alive particles it
\* finds outside the container and pushes as many new ones, alive and
\* recorded first at a position inside; and it changes nothing of a particle
\* that was dead.
C27_AliveCountKept ==
    /\ [](sk.op # "new" => Alive(sk.particles) = sk.created)
    /\ [][(sk'.op = "draw") =>
             LET left == {i \in DOMAIN sk.particles :
                             sk.particles[i].alive /\ sk.particles[i].position = "out"}
             IN  /\ Len(sk'.particles) = Len(sk.particles) + Cardinality(left)
                 /\ \A i \in DOMAIN sk.particles :
                       /\ sk'.particles[i].alive <=> (sk.particles[i].alive /\ i \notin left)
                       /\ ~sk.particles[i].alive => sk'.particles[i] = sk.particles[i]
                       /\ i \in left => sk'.particles[i].path = sk.particles[i].path
                 /\ \A j \in DOMAIN sk'.particles \ DOMAIN sk.particles :
                       /\ sk'.particles[j].alive
                       /\ sk'.particles[j].path = <<"in">>]_vars

C27_Witness ==
    /\ sk.op = "draw"
    /\ sk.created = 2
    /\ Len(sk.particles) >= 4
    /\ \E i \in DOMAIN sk.particles :
          ~sk.particles[i].alive /\ Len(sk.particles[i].path) >= 1
    /\ \E i \in DOMAIN sk.particles :
          sk.particles[i].alive /\ sk.particles[i].position = "out"
\* ---------------------------------------------------------------------------
\* ParallelBands
\*
\* draw runs five rounds of subdivision on this.rects, which only reset
\* replaces, so the rounds of one draw call and of the next follow each other
\* alike; a round is one step here.  p.random(len) is sampled at 0, at an
\* eighth, a third and half of len, whole numbers, and all rectangles of a
\* round are cut by the same rule.

ParallelBands_width == 1920

ParallelBands_height == 1080

\* The area a sub-rectangle must exceed.
ParallelBands_minArea == 1000

\* Most rounds followed after a reset.
MaxBandRounds == 3

\* The rules for p.random(len).
CutRules == {"zero", "eighth", "third", "half"}

cut(rule, len) ==
    IF rule = "zero" THEN 0
    ELSE IF rule = "eighth" THEN len \div 8
    ELSE IF rule = "third" THEN len \div 3
    ELSE len \div 2

\* new Rect(x, y, width, height)
Rect(x, y, width, height) == [x |-> x, y |-> y, width |-> width, height |-> height]

\* Rect.area
area(r) == r.width * r.height

\* Rect.subdivide, with w and h the two values of p.random.
Rect_subdivide(r, w, h) ==
    <<Rect(r.x, r.y, w, h),
      Rect(r.x + w, r.y, r.width - w, h),
      Rect(r.x, r.y + h, w, r.height - h),
      Rect(r.x + w, r.y + h, r.width - w, r.height - h)>>

\* A test that looks at the area only.
rejects_areaOnly(s) == area(s) <= ParallelBands_minArea

\* s.area() <= 1000 || ratio < 0.2 || ratio > 10, with ratio = s.width /
\* s.height (Infinity for a height of 0, NaN for 0 / 0, which compares false).
rejects(s) ==
    \/ area(s) <= ParallelBands_minArea
    \/ 5 * s.width < s.height
    \/ s.width > 10 * s.height

\* The body of the loop over this.rects: what is pushed to newRects for r.
ParallelBands_sub(r, w, h) ==
    LET sub == Rect_subdivide(r, w, h)
    IN  IF \E k \in DOMAIN sub : rejects(sub[k]) THEN <<r>> ELSE sub

\* One round: newRects for the first n rectangles of rects.
RECURSIVE ParallelBands_round(_, _, _, _)
ParallelBands_round(rects, n, ruleW, ruleH) ==
    IF n = 0 THEN << >>
    ELSE ParallelBands_round(rects, n - 1, ruleW, ruleH)
            \o ParallelBands_sub(rects[n], cut(ruleW, rects[n].width),
                                           cut(ruleH, rects[n].height))

\* The instance as constructed.  rounds counts the rounds since the last
\* reset.
NewBands == [op |-> "new", rects |-> << >>, rounds |-> 0]

\* ParallelBands.reset
Bands_reset(s) ==
    [s EXCEPT !.rects = <<Rect(0, 0, ParallelBands_width, ParallelBands_height)>>,
              !.rounds = 0]

InitBands ==
    /\ HostInit
    /\ sk = NewBands

BandsReset ==
    /\ sk' = [Bands_reset(sk) EXCEPT !.op = "reset"]
    /\ UNCHANGED hostVars

BandsRound(ruleW, ruleH) ==
    /\ sk.op # "new"
    /\ sk.rounds < MaxBandRounds
    /\ sk' = [sk EXCEPT !.op = "round",
                        !.rects = ParallelBands_round(@, Len(@), ruleW, ruleH),
                        !.rounds = @ + 1]
    /\ UNCHANGED hostVars

NextBands ==
    \/ BandsReset
    \/ \E ruleW \in CutRules, ruleH \in CutRules : BandsRound(ruleW, ruleH)

SpecBands == InitBands /\ [][NextBands]_vars

Disjoint(a, b) ==
    \/ a.x + a.width <= b.x
    \/ b.x + b.width <= a.x
    \/ a.y + a.height <= b.y
    \/ b.y + b.height <= a.y

Within(a, r) ==
    /\ r.x <= a.x /\ a.x + a.width <= r.x + r.width
    /\ r.y <= a.y /\ a.y + a.height <= r.y + r.height

RECURSIVE SumAreas(_, _)
SumAreas(rects, n) == IF n = 0 THEN 0 ELSE SumAreas(rects, n - 1) + area(rects[n])

Members(rects) == {rects[k] : k \in DOMAIN rects}

\* C28: after a reset and after every round the rectangles do not overlap
\* and their areas add up to width x height; and a round keeps a rectangle
\* or replaces it by four rectangles inside it that add up to its area, each
\* of area above 1000 and with width / height between 0.2 and 10.
C28_RectsTileCanvas ==
    /\ [](sk.op # "new" =>
            /\ \A m, n \in DOMAIN sk.rects : m # n => Disjoint(sk.rects[m], sk.rects[n])
            /\ SumAreas(sk.rects, Len(sk.rects)) = 1920 * 1080)
    /\ [][(sk'.op = "round") =>
            /\ \A s \in Members(sk'.rects) \ Members(sk.rects) :
                  /\ area(s) > 1000
                  /\ 5 * s.width >= s.height
                  /\ s.width <= 10 * s.height
            /\ \A r \in Members(sk.rects) \ Members(sk'.rects) :
                  LET parts == {s \in Members(sk'.rects) : Within(s, r)}
                  IN  /\ Cardinality(parts) = 4
                      /\ \A s \in parts : s \notin Members(sk.rects)
            /\ Len(sk'.rects) = Len(sk.rects)
                  + 3 * Cardinality(Members(sk.rects) \ Members(sk'.rects))]_vars

C28_Witness ==
    /\ sk.op = "round"
    /\ Len(sk.rects) >= 7
    /\ \E r \in Members(sk.rects) :
          LET sub == Rect_subdivide(r, r.width \div 8, r.height \div 8)
          IN  /\ \A k \in 1..4 : area(sub[k]) > 1000
              /\ \E k \in 1..4 : sub[k].width > 10 * sub[k].height
    /\ \E r \in Members(sk.rects) :
          LET sub == Rect_subdivide(r, r.width \div 2, r.height \div 2)
          IN  /\ \E k \in 1..4 : area(sub[k]) <= 1000
              /\ \A k \in 1..4 : 5 * sub[k].width >= sub[k].height
              /\ \A k \in 1..4 : sub[k].width <= 10 * sub[k].height

\* ---------------------------------------------------------------------------
\* LSystem (src/sketches/space-filling-curves.ts 96-123, the same text in
\* src/unnamed/part_003 112-139).  A state string is the sequence of its
\* symbols, rules is a function from the symbols that have a rule to their
\* replacement, theta is kept as a name.  gens is a JavaScript number: it is
\* counted here in halves, so that whole and fractional generations are both
\* inputs (gens = h / 2: gens <= 0 is h <= 0, gens - 1 is h - 2).
\* ---------------------------------------------------------------------------
MaxHalves == 3

Halves == -1..MaxHalves

LSystem(state, rules, theta) == [state |-> state, rules |-> rules, theta |-> theta]

\* rules.get(c), with c itself when the Map has no entry
rule_dropUnruled(rules, c) == IF c \in DOMAIN rules THEN rules[c] ELSE << >>

rule(rules, c) == IF c \in DOMAIN rules THEN rules[c] ELSE <<c>>

\* the for-of loop of advance over state[lo..hi]: newState += nc
RECURSIVE LSystem_rewrite(_, _, _, _)
LSystem_rewrite(state, rules, lo, hi) ==
    IF lo > hi THEN << >>
    ELSE IF lo = hi THEN rule(rules, state[lo])
    ELSE LET mid == (lo + hi) \div 2
         IN  LSystem_rewrite(state, rules, lo, mid) \o LSystem_rewrite(state, rules, mid + 1, hi)

RECURSIVE advance(_, _)
advance(this, h) ==
    IF h <= 0 THEN this
    ELSE advance(LSystem(LSystem_rewrite(this.state, this.rules, 1, Len(this.state)),
                         this.rules, this.theta),
                 h - 2)

HilbertCurve ==
    LSystem(<<"L">>,
            [c \in {"L", "R"} |->
                IF c = "L" THEN <<"+", "R", "F", "-", "L", "F", "L", "-", "F", "R", "+">>
                           ELSE <<"-", "L", "F", "+", "R", "F", "R", "+", "F", "L", "-">>],
            "PI/2")

HilbertCurve2 ==
    LSystem(<<"X">>,
            [c \in {"X", "Y"} |->
                IF c = "X"
                THEN <<"X", "F", "Y", "F", "X", "+", "F", "+", "Y", "F", "X",
                       "F", "Y", "-", "F", "-", "X", "F", "Y", "F", "X">>
                ELSE <<"Y", "F", "X", "F", "Y", "-", "F", "-", "X", "F", "Y",
                       "F", "X", "+", "F", "+", "Y", "F", "X", "F", "Y">>],
            "PI/2")

PeanoGosperCurve ==
    LSystem(<<"Y">>,
            [c \in {"X", "Y"} |->
                IF c = "X"
                THEN <<"X", "+", "Y", "F", "+", "+", "Y", "F", "-", "F", "X",
                       "-", "-", "F", "X", "F", "X", "-", "Y", "F", "+">>
                ELSE <<"-", "F", "X", "+", "Y", "F", "Y", "F", "+", "+", "Y",
                       "F", "+", "F", "X", "-", "-", "F", "X", "-", "Y">>],
            "PI/3")

\* the receivers studied: the three curves of the sketch, and three small
\* systems whose axiom holds symbols without a rule, an erasing rule, or
\* whose Map is empty
Receivers ==
    { HilbertCurve, HilbertCurve2, PeanoGosperCurve,
      LSystem(<<"F", "X", "-", "X">>, [c \in {"X"} |-> <<"X", "F">>], "PI/2"),
      LSystem(<<"A", "F", "B">>,
              [c \in {"A", "B"} |-> IF c = "A" THEN <<"B", "A">> ELSE << >>], "PI/3"),
      LSystem(<<"F", "+", "F">>, [c \in {} |-> << >>], "PI/2") }

NewLSystem(l) == [op |-> "new", this |-> l, m |-> 0, n |-> 0,
                  first |-> l, second |-> l, whole |-> l]

InitLSystem == HostInit /\ sk \in {NewLSystem(l) : l \in Receivers}

\* first = this.advance(m)
LSystemAdvance(h) ==
    /\ sk.op = "new"
    /\ sk' = [sk EXCEPT !.op = "first", !.m = h, !.first = advance(sk.this, h)]
    /\ UNCHANGED hostVars

\* second = first.advance(n), next to whole = this.advance(m + n)
LSystemAdvanceAgain(h) ==
    /\ sk.op = "first"
    /\ sk' = [sk EXCEPT !.op = "second", !.n = h,
                        !.second = advance(sk.first, h),
                        !.whole = advance(sk.this, sk.m + h)]
    /\ UNCHANGED hostVars

NextLSystem ==
    \/ \E h \in Halves : LSystemAdvance(h)
    \/ \E h \in Halves : LSystemAdvanceAgain(h)

SpecLSystem == InitLSystem /\ [][NextLSystem]_vars

\* position in the rewritten string of the symbol(s) that replace state[k]
RECURSIVE offset(_, _)
offset(l, k) == IF k = 1 THEN 0 ELSE offset(l, k - 1) + Len(rule(l.rules, l.state[k - 1]))

ceilHalves(h) == IF h <= 0 THEN 0 ELSE (h + 1) \div 2

\* what one call leaves alone and returns, whatever gens is
AdvanceKeeps ==
    /\ sk.op # "new" =>
          /\ sk.first.rules = sk.this.rules /\ sk.first.theta = sk.this.theta
          /\ sk.m <= 0 => sk.first = sk.this
          /\ (\A k \in DOMAIN sk.this.state : sk.this.state[k] \notin DOMAIN sk.this.rules)
                => sk.first.state = sk.this.state
          /\ sk.m \in {1, 2} =>
                \A k \in DOMAIN sk.this.state :
                    sk.this.state[k] \notin DOMAIN sk.this.rules =>
                        /\ offset(sk.this, k) + 1 \in DOMAIN sk.first.state
                        /\ sk.first.state[offset(sk.this, k) + 1] = sk.this.state[k]
                        /\ offset(sk.this, k + 1) = offset(sk.this, k) + 1
          /\ sk.m \in {1, 2} => Len(sk.first.state) = offset(sk.this, Len(sk.this.state) + 1)
    /\ sk.op = "second" =>
          /\ sk.n <= 0 => sk.second = sk.first
          /\ sk.second.rules = sk.this.rules /\ sk.second.theta = sk.this.theta

NeonWalk_width == 1920
NeonWalk_height == 1080
NeonWalk_gridSize == 40

cellWidth == NeonWalk_width \div NeonWalk_gridSize
cellHeight == NeonWalk_height \div NeonWalk_gridSize

WalkHalves == {20, 21, 99}
WalkCells == {0, 1, NeonWalk_gridSize - 2, NeonWalk_gridSize - 1}

NewWalk == [op |-> "new", n |-> 0, i |-> 0, pt |-> <<0, 0>>,
            count |-> 0, first |-> <<0, 0>>, last |-> <<0, 0>>]

\* lines 62-74: start on the left or top edge
randomWalk_begin(s, n, alongTop, cell) ==
    [s EXCEPT !.op = "walk", !.n = n, !.i = 0, !.count = 0,
              !.pt = IF alongTop THEN <<cell * cellWidth, 0>> ELSE <<0, cell * cellHeight>>]

\* lines 77-91 without the two breaks
randomWalk_iterate_noBreak(s, right, down) ==
    LET x == IF right THEN s.pt[1] + cellWidth ELSE s.pt[1]
        y == IF down THEN s.pt[2] + cellHeight ELSE s.pt[2]
    IN  [s EXCEPT !.count = @ + 1,
                  !.first = IF s.count = 0 THEN s.pt ELSE @,
                  !.last = s.pt,
                  !.pt = <<x, y>>,
                  !.i = @ + 1]

\* lines 77-91: one pass of the for loop, from its yield to ++i or a break
randomWalk_iterate(s, right, down) ==
    LET x == IF right THEN s.pt[1] + cellWidth ELSE s.pt[1]
        brokeX == right /\ x >= NeonWalk_width
        y == IF ~brokeX /\ down THEN s.pt[2] + cellHeight ELSE s.pt[2]
        brokeY == ~brokeX /\ down /\ y >= NeonWalk_height
    IN  [s EXCEPT !.count = @ + 1,
                  !.first = IF s.count = 0 THEN s.pt ELSE @,
                  !.last = s.pt,
                  !.pt = <<x, y>>,
                  !.i = IF brokeX \/ brokeY THEN @ ELSE @ + 1,
                  !.op = IF brokeX \/ brokeY THEN "break" ELSE @]

InitWalk == HostInit /\ sk = NewWalk

WalkBegin(n, alongTop, cell) ==
    /\ sk.op = "new"
    /\ sk' = randomWalk_begin(sk, n, alongTop, cell)
    /\ UNCHANGED hostVars

WalkIterate(right, down) ==
    /\ sk.op = "walk"
    /\ 2 * sk.i < sk.n
    /\ sk' = randomWalk_iterate(sk, right, down)
    /\ UNCHANGED hostVars

\* line 76: i < n fails, the generator returns
WalkReturn ==
    /\ sk.op = "walk"
    /\ ~(2 * sk.i < sk.n)
    /\ sk' = [sk EXCEPT !.op = "return"]
    /\ UNCHANGED hostVars

NextWalk ==
    \/ \E n \in WalkHalves, alongTop \in BOOLEAN, cell \in WalkCells : WalkBegin(n, alongTop, cell)
    \/ \E right, down \in BOOLEAN : WalkIterate(right, down)
    \/ WalkReturn

SpecWalk == InitWalk /\ [][NextWalk]_vars

\* C30: randomWalk yields at least one and at most ceil(n) points, every
\* yielded point has 0 <= x < width and 0 <= y < height, the first one lies
\* on the left or top edge, and neither coordinate decreases from one
\* yielded point to the next.
C30_WalkStaysInside ==
    /\ [](sk.count >= 1 =>
            /\ 0 <= sk.last[1] /\ sk.last[1] < NeonWalk_width
            /\ 0 <= sk.last[2] /\ sk.last[2] < NeonWalk_height
            /\ sk.first[1] = 0 \/ sk.first[2] = 0
            /\ 2 * sk.count < sk.n + 2)
    /\ [](sk.op \in {"break", "return"} => sk.count >= 1)
    /\ [][sk'.count > sk.count /\ sk.count >= 1 =>
            sk'.last[1] >= sk.last[1] /\ sk'.last[2] >= sk.last[2]]_vars

C30_Witness ==
    /\ sk.op = "break"
    /\ sk.count >= 3
    /\ sk.pt[2] >= NeonWalk_height
    /\ sk.last[2] < NeonWalk_height
    /\ sk.last[1] > sk.first[1]
    /\ sk.first[1] > 0

====
